---- MODULE Spec2Model ----
(***************************************************************************)
(* Model of the remote-interaction proxy of mcp_factory/server.py:         *)
(* remote_discover / remote_call, the stdio transport (_stdio_request),    *)
(* the SSE/HTTP transport (_sse_request), the JSON-RPC helpers and the     *)
(* result formatters.                                                      *)
(*                                                                         *)
(* In Spec one call is in flight at a time; SpecPair runs two at once,    *)
(* SpecFormat the formatters alone, SpecRegistry the tools that write the  *)
(* registry.  An action of a call is the code that runs                    *)
(* between two suspension points (await) of the coroutine; the child       *)
(* process and the caller's cancellation are environment actions that      *)
(* interleave at those points.                                             *)
(***************************************************************************)
EXTENDS Integers, Sequences, FiniteSets, TLC

VARIABLES
    registry,   \* alias -> descriptor slot (registry.json, "servers")
    pc,         \* suspension point of the call in flight
    op,         \* "discover" | "call" : which tool is running
    alias,      \* the alias argument of the call
    child,      \* "none" | "running" | "exited" : the spawned process
    buf,        \* lines written by the child on stdout, not yet read
    wire,       \* what the proxy has put on / taken from the wire, in order
    pend,       \* return value or exception travelling through `finally`
    outcome,    \* what remote_discover / remote_call handed to the caller
    respFrame,  \* the frame that was taken as the response to the request
    respTaken,  \* TRUE once a frame has been taken as the response
    fail,       \* first failure event of the call ("" when none)
    termReq,    \* proc.terminate() has been called
    killed,     \* proc.kill() has been called
    cancelAt,   \* suspension point at which the caller cancelled ("" = never)
    spawns,     \* number of create_subprocess_exec calls of this call
    posts,      \* number of HTTP POSTs of this call
    fmtIn,      \* the result mapping handed to a formatter
    fmtBy,      \* "" | "tools" | "call" : the formatter that was applied
    fmtOut,     \* what that formatter returned or raised
    dirs,       \* name -> TRUE when SERVERS_DIR / name exists
    regOp,      \* the registry-writing tool that ran last ("" = none yet)
    regOut,     \* "ok" | "rejected" | "raised" : how that tool ended
    pcB,        \* suspension point of a second, concurrent call
    opB,        \* which tool the second call runs
    bodyB,      \* the body the second call's POST returned
    failB,      \* first failure event of the second call
    outcomeB,   \* what the second call handed to its caller
    overlap,    \* TRUE once a call began while the other was in flight
    envOf,      \* alias -> the entry's "env" map, key -> value
    envTwin,    \* the same in a second registry: same keys, other values
    statusName, \* the name server_status was called with ("" = not yet)
    statusOut,  \* what server_status returned on the registry
    statusTwin  \* what it returned on the second registry

\* the call in flight
callVars == <<pc, op, alias, child, buf, wire, pend, outcome, respFrame,
              respTaken, fail, termReq, killed, cancelAt, spawns, posts>>

\* the formatter under study on its own
fmtVars == <<fmtIn, fmtBy, fmtOut>>

\* the registry-writing tools
regVars == <<dirs, regOp, regOut>>

\* a second call, awaited by the event loop together with the first
callVarsB == <<pcB, opB, bodyB, failB, outcomeB>>
pairVars == <<callVarsB, overlap>>

\* server_status on two registries side by side
statusVars == <<envOf, envTwin, statusName, statusOut, statusTwin>>

\* state that a remote_discover / remote_call does not touch
beside == <<fmtVars, regVars, pairVars, statusVars>>

vars == <<registry, callVars, fmtVars, regVars, pairVars, statusVars>>

----------------------------------------------------------------------------
(* Bounds *)

MaxBuf == 2
MaxItems == 2

----------------------------------------------------------------------------
(* Protocol constants *)

InitId == 1
RequestId == 2
SseRequestId == 1
NoId == 0

Aliases == {"proc", "web"}

----------------------------------------------------------------------------
(* Registry descriptors.  present = FALSE is an alias that is not a key of *)
(* registry["servers"]; hasCommand / hasUrl tell whether the entry has the *)
(* key; env is the entry's "env" map as far as AUTH_TOKEN goes.            *)

NoEnv == [has |-> FALSE, hasToken |-> FALSE, token |-> ""]
EnvNoToken == [has |-> TRUE, hasToken |-> FALSE, token |-> ""]
EnvEmptyToken == [has |-> TRUE, hasToken |-> TRUE, token |-> ""]
EnvToken == [has |-> TRUE, hasToken |-> TRUE, token |-> "tok"]
Envs == {NoEnv, EnvNoToken, EnvEmptyToken, EnvToken}

Desc(transport, hasCommand, command, hasUrl, url, env, managed) ==
    [present |-> TRUE, transport |-> transport, hasCommand |-> hasCommand,
     command |-> command, hasUrl |-> hasUrl, url |-> url, env |-> env,
     managed |-> managed]

NoDesc ==
    [present |-> FALSE, transport |-> "", hasCommand |-> FALSE, command |-> "",
     hasUrl |-> FALSE, url |-> "", env |-> NoEnv, managed |-> FALSE]
StdioDesc == Desc("stdio", TRUE, "python", FALSE, "", NoEnv, FALSE)
SseDesc == Desc("sse", FALSE, "", TRUE, "http://h/sse", NoEnv, FALSE)
SseDescEnv(env) == Desc("sse", FALSE, "", TRUE, "http://h/sse", env, FALSE)

\* mutant: the check of line 97 is missing
registry_add_accepts_NoCommandCheck(d) ==
    /\ d.transport \in {"stdio", "sse"}
    /\ ~(d.transport = "sse" /\ d.url = "")

\* registry_add only stores a descriptor that passed its three checks
registry_add_accepts(d) ==
    /\ d.transport \in {"stdio", "sse"}
    /\ ~(d.transport = "stdio" /\ d.command = "")
    /\ ~(d.transport = "sse" /\ d.url = "")

Descriptors ==
    {d \in {StdioDesc} \cup {SseDescEnv(e) : e \in Envs} : registry_add_accepts(d)}

\* the registries of the calls: "proc" names a process server or nothing,
\* "web" a remote server or nothing
Registries ==
    {r \in [Aliases -> Descriptors \cup {NoDesc}] :
        r["proc"].transport # "sse" /\ r["web"].transport # "stdio"}

\* descriptors that only a registry.json written by hand can hold
StdioNoCommand == Desc("stdio", FALSE, "", FALSE, "", NoEnv, FALSE)
StdioEmptyCommand == Desc("stdio", TRUE, "", FALSE, "", NoEnv, FALSE)
SseNoUrl == Desc("sse", FALSE, "", FALSE, "", NoEnv, FALSE)
SseEmptyUrl == Desc("sse", FALSE, "", TRUE, "", NoEnv, FALSE)
OtherDesc == Desc("http", TRUE, "python", TRUE, "http://h/sse", NoEnv, FALSE)

\* the descriptor invariant of the data model
ValidDescriptor(d) ==
    /\ d.transport \in {"stdio", "sse"}
    /\ d.transport = "stdio" => (d.hasCommand /\ d.command # "")
    /\ d.transport = "sse" => (d.hasUrl /\ d.url # "")

AnyRegistries ==
    {r \in [Aliases -> {NoDesc, StdioDesc, StdioNoCommand, StdioEmptyCommand,
                        SseDesc, SseNoUrl, SseEmptyUrl, OtherDesc}] :
        /\ r["proc"].transport # "sse"
        /\ r["web"].transport \notin {"stdio", "http"}}

----------------------------------------------------------------------------
(* JSON values exchanged with the downstream server *)

Param1 == [pname |-> "q", ptype |-> "string", pdesc |-> "query"]
Tool1 == [hasName |-> TRUE, name |-> "search", desc |-> "find", props |-> <<Param1>>]
ToolNoName == [hasName |-> FALSE, name |-> "", desc |-> "", props |-> <<>>]

\* A string that may hold "\n" is the sequence of its lines, a line the
\* sequence of its pieces: "" is one empty line, "a\nb" is two lines.
Str(piece) == <<<<piece>>>>
EmptyStr == <<<<>>>>

Item(type, hasText, text, data) ==
    [type |-> type, hasText |-> hasText, text |-> text, data |-> data]
Item1 == Item("text", TRUE, Str("hello"), "")
ItemSentinelText == Item("text", TRUE, Str("(empty response)"), "")
ItemTwoLines == Item("text", TRUE, <<<<"a">>, <<"b">>>>, "")
ItemEmptyText == Item("text", TRUE, EmptyStr, "")
ItemNoText == Item("text", FALSE, EmptyStr, "")
ItemImage == Item("image", FALSE, EmptyStr, "png")
Tool2 == [hasName |-> TRUE, name |-> "list", desc |-> "", props |-> <<>>]

EmptyResult == [hasTools |-> FALSE, tools |-> <<>>, hasContent |-> FALSE, content |-> <<>>]
ToolsResult == [hasTools |-> TRUE, tools |-> <<Tool1>>, hasContent |-> FALSE, content |-> <<>>]
BadToolsResult == [hasTools |-> TRUE, tools |-> <<ToolNoName>>, hasContent |-> FALSE, content |-> <<>>]
ContentResult == [hasTools |-> FALSE, tools |-> <<>>, hasContent |-> TRUE, content |-> <<Item1>>]

ErrVals == {"e1", "e2"}

Frame(valid, isobj, id, hasResult, result, hasError, error) ==
    [valid |-> valid, isobj |-> isobj, id |-> id, hasResult |-> hasResult,
     result |-> result, hasError |-> hasError, error |-> error]

NoFrame == Frame(FALSE, FALSE, NoId, FALSE, EmptyResult, FALSE, "")
Garbage == Frame(FALSE, FALSE, NoId, FALSE, EmptyResult, FALSE, "x")
NonObject == Frame(TRUE, FALSE, NoId, FALSE, EmptyResult, FALSE, "")
Notification == Frame(TRUE, TRUE, NoId, FALSE, EmptyResult, FALSE, "")
InitResponse == Frame(TRUE, TRUE, InitId, TRUE, EmptyResult, FALSE, "")
BareResponse == Frame(TRUE, TRUE, RequestId, FALSE, EmptyResult, FALSE, "")
ResultResponse(r) == Frame(TRUE, TRUE, RequestId, TRUE, r, FALSE, "")
ErrorResponse(e) == Frame(TRUE, TRUE, RequestId, FALSE, EmptyResult, TRUE, e)

\* every line the child (or the HTTP server, as a body) may produce
Frames ==
    {Garbage, NonObject, Notification, InitResponse, BareResponse}
    \cup {ResultResponse(r) : r \in {ToolsResult, BadToolsResult, ContentResult}}
    \cup {ErrorResponse(e) : e \in ErrVals}

----------------------------------------------------------------------------
(* Values travelling out of the transport: a return value or an exception. *)
(* A text is a sequence of lines, a line a sequence of string pieces.      *)

Outcome(kind, text) == [kind |-> kind, text |-> text]
NoOutcome == Outcome("", <<>>)

Ret(kind, text) == [type |-> "return", val |-> Outcome(kind, text)]
Exc(name) == [type |-> "Exception", val |-> Outcome("", <<<<name>>>>)]
TimeoutExc == [type |-> "TimeoutError", val |-> NoOutcome]
CancelExc == [type |-> "CancelledError", val |-> NoOutcome]
NoPend == [type |-> "", val |-> NoOutcome]

\* str() of an error payload inside the f-string of lines 497 / 530
PyStr(e) ==
    CASE e = "e1" -> "{'code': 1}"
      [] e = "e2" -> "{'code': 2}"
      [] OTHER -> e

RECURSIVE ParamLines(_)
ParamLines(props) ==
    IF props = <<>> THEN <<>>
    ELSE LET p == Head(props)
             ptype == IF p.ptype = "" THEN "any" ELSE p.ptype
             line == <<"    ", p.pname, ": ", ptype>>
                     \o (IF p.pdesc # "" THEN <<" - ", p.pdesc>> ELSE <<>>)
         IN <<line>> \o ParamLines(Tail(props))

RECURSIVE ToolLines(_)
ToolLines(tools) ==
    IF tools = <<>> THEN <<>>
    ELSE LET t == Head(tools)
         IN <<<<"  ", t.name, ": ", t.desc>>>> \o ParamLines(t.props)
            \o ToolLines(Tail(tools))

_format_tools(result) ==
    LET tools == IF result.hasTools THEN result.tools ELSE <<>>
    IN IF tools = <<>>
       THEN Ret("Formatted", <<<<"No tools found on this server.">>>>)
       ELSE IF \E i \in 1..Len(tools) : ~tools[i].hasName
            THEN Exc("KeyError")
            ELSE Ret("Formatted", <<<<"Available tools:">>>> \o ToolLines(tools))

\* json.dumps(item): one line, a newline inside is escaped
JsonDumps(item) == <<<<"{\"type\": \"", item.type, "\", \"data\": \"", item.data, "\"}">>>>

\* the list `parts` of lines 574-579: one string per content item
RECURSIVE Parts(_)
Parts(content) ==
    IF content = <<>> THEN <<>>
    ELSE LET item == Head(content)
         IN <<(IF item.type = "text" THEN item.text ELSE JsonDumps(item))>>
            \o Parts(Tail(content))

\* "\n".join(parts): the lines of the parts, one part after the other
RECURSIVE Join(_)
Join(parts) ==
    IF parts = <<>> THEN EmptyStr
    ELSE IF Len(parts) = 1 THEN Head(parts)
    ELSE Head(parts) \o Join(Tail(parts))

\* mutant: the sentinel stands for a blank text as well
_format_call_result_SentinelOnBlank(result) ==
    LET content == IF result.hasContent THEN result.content ELSE <<>>
    IN IF \E i \in 1..Len(content) : content[i].type = "text" /\ ~content[i].hasText
       THEN Exc("KeyError")
       ELSE IF Join(Parts(content)) # EmptyStr
            THEN Ret("Formatted", Join(Parts(content)))
            ELSE Ret("Formatted", Str("(empty response)"))

_format_call_result(result) ==
    LET content == IF result.hasContent THEN result.content ELSE <<>>
    IN IF \E i \in 1..Len(content) : content[i].type = "text" /\ ~content[i].hasText
       THEN Exc("KeyError")
       ELSE IF Parts(content) # <<>>
            THEN Ret("Formatted", Join(Parts(content)))
            ELSE Ret("Formatted", Str("(empty response)"))

\* the formatter remote_discover / remote_call pass to the transport
Formatter(o, result) ==
    IF o = "discover" THEN _format_tools(result) ELSE _format_call_result(result)

\* lines 496-499 and 529-531: what the transport makes of a decoded frame
Interpret(o, f) ==
    IF ~f.isobj THEN Exc("TypeError")
    ELSE IF f.hasError THEN Ret("ServerError", <<<<"Server error: ", PyStr(f.error)>>>>)
    ELSE Formatter(o, IF f.hasResult THEN f.result ELSE EmptyResult)
\* mutant: the `except asyncio.TimeoutError` clause is missing
Surface_NoTimeoutClause(p) ==
    CASE p.type = "return" -> p.val
      [] p.type \in {"TimeoutError", "Exception"} -> Outcome("Error", p.val.text)
      [] OTHER -> Outcome("Cancelled", <<>>)

\* the except clauses of remote_discover / remote_call
Surface(p) ==
    CASE p.type = "return" -> p.val
      [] p.type = "TimeoutError" -> Outcome("Timeout", <<>>)
      [] p.type = "Exception" -> Outcome("Error", p.val.text)
      [] OTHER -> Outcome("Cancelled", <<>>)

----------------------------------------------------------------------------
(* The wire: _send_jsonrpc, _send_notification and the lines read *)

Method(o) == IF o = "discover" THEN "tools/list" ELSE "tools/call"

_send_jsonrpc(w, req_id, method) == Append(w, <<"send", method, req_id>>)

_send_notification(w, method) == Append(w, <<"send", method, NoId>>)

ReadEvent(w, expect) == Append(w, <<"readline", "", expect>>)

SpawnEvent(w) == Append(w, <<"spawn", "", NoId>>)
\* mutant: the header is attached whenever the key is in the env map
Headers_KeyPresent(server) ==
    IF server.env.has /\ server.env.hasToken
    THEN <<<<"header Authorization: Bearer", server.env.token, NoId>>>>
    ELSE <<>>

\* lines 516-518: the headers of the POST
Headers(server) ==
    IF server.env.has /\ server.env.hasToken /\ server.env.token # ""
    THEN <<<<"header Authorization: Bearer", server.env.token, NoId>>>>
    ELSE <<>>

PostEvent(w, server, req_id, method) ==
    Append(w \o Headers(server), <<"post", method, req_id>>)

Drains == {"drain_init", "drain_notif", "drain_req"}
Reads == {"read_init", "read_resp"}

----------------------------------------------------------------------------
(* Initial state: no call in flight, a registry written by registry_add *)

\* no call in flight
NoCall ==
    /\ pc = "idle"
    /\ op = ""
    /\ alias = ""
    /\ child = "none"
    /\ buf = <<>>
    /\ wire = <<>>
    /\ pend = NoPend
    /\ outcome = NoOutcome
    /\ respFrame = NoFrame
    /\ respTaken = FALSE
    /\ fail = ""
    /\ termReq = FALSE
    /\ killed = FALSE
    /\ cancelAt = ""
    /\ spawns = 0
    /\ posts = 0

\* no formatter under study
NoFormat ==
    /\ fmtIn = EmptyResult
    /\ fmtBy = ""
    /\ fmtOut = NoPend

\* no registry-writing tool has run, no server directory exists
NoRegOp ==
    /\ dirs = [a \in Aliases |-> FALSE]
    /\ regOp = ""
    /\ regOut = ""

\* an "env" map with no variable
NoVars == [k \in {} |-> ""]

\* server_status has not been called
NoStatus ==
    /\ envOf = [a \in Aliases |-> NoVars]
    /\ envTwin = [a \in Aliases |-> NoVars]
    /\ statusName = ""
    /\ statusOut = <<>>
    /\ statusTwin = <<>>

\* no second call
NoCallB ==
    /\ pcB = "idle"
    /\ opB = ""
    /\ bodyB = NoFrame
    /\ failB = ""
    /\ outcomeB = NoOutcome
    /\ overlap = FALSE

Init ==
    /\ registry \in Registries
    /\ NoCall
    /\ NoFormat
    /\ NoRegOp
    /\ NoCallB
    /\ NoStatus

\* registry.json as any file the proxy may find, written by hand included
InitAnyRegistry ==
    /\ registry \in AnyRegistries
    /\ NoCall
    /\ NoFormat
    /\ NoRegOp
    /\ NoCallB
    /\ NoStatus

\* the call hands o to its caller
Done(o) ==
    /\ pc' = "done"
    /\ outcome' = o
\* mutant: the alias test is dropped
Known_Dropped(a) == TRUE

\* the alias test of lines 168 and 196
Known(a) == registry[a].present

\* proc.terminate() raises ProcessLookupError once the transport has seen
\* the child exit; before that it is a no-op on a dead child
terminate_may_raise(c) == c = "exited"

\* the finally block of _stdio_request up to its await: proc.terminate(),
\* then wait_for(proc.wait(), 5); p is what the try block returned or raised
Finally(p) ==
    /\ termReq' = TRUE
    /\ \/ /\ terminate_may_raise(child)
          /\ pend' = Exc("ProcessLookupError")
          /\ Done(Surface(Exc("ProcessLookupError")))
       \/ /\ pend' = p
          /\ pc' = "grace"
          /\ UNCHANGED outcome

Raise(p, why) ==
    /\ fail' = IF fail = "" THEN why ELSE fail
    /\ Finally(p)

\* lines 469-478 of _stdio_request and 510-526 of _sse_request, up to the
\* first await
StdioBegin(server) ==
    IF ~server.hasCommand
    THEN /\ Done(Surface(Exc("KeyError")))
         /\ fail' = "descriptor"
         /\ UNCHANGED <<spawns, posts, wire>>
    ELSE /\ pc' = "spawn"
         /\ spawns' = spawns + 1
         /\ UNCHANGED <<outcome, posts, fail, wire>>

SseBegin(server, o) ==
    \E httpx \in BOOLEAN :
        IF ~httpx
        THEN /\ Done(Outcome("Unavailable", <<<<"Error: httpx not installed.">>>>))
             /\ fail' = "httpx"
             /\ UNCHANGED <<spawns, posts, wire>>
        ELSE IF ~server.hasUrl
        THEN /\ Done(Surface(Exc("KeyError")))
             /\ fail' = "descriptor"
             /\ UNCHANGED <<spawns, posts, wire>>
        ELSE IF server.url = ""
        THEN \* the client refuses a url without a scheme before it connects
             /\ Done(Surface(Exc("UnsupportedProtocol")))
             /\ fail' = "descriptor"
             /\ UNCHANGED <<spawns, posts, wire>>
        ELSE /\ pc' = "post"
             /\ posts' = posts + 1
             /\ wire' = PostEvent(wire, server, SseRequestId, Method(o))
             /\ UNCHANGED <<outcome, spawns, fail>>
\* mutant: every transport that is not stdio is served as sse
Dispatch_ElseSse(server, o) ==
    IF server.transport = "stdio" THEN StdioBegin(server)
    ELSE SseBegin(server, o)

\* the if / elif / else on server["transport"]
Dispatch(server, o) ==
    IF server.transport = "stdio" THEN StdioBegin(server)
    ELSE IF server.transport = "sse" THEN SseBegin(server, o)
    ELSE /\ Done(Outcome("UnknownTransport", <<<<server.transport>>>>))
         /\ UNCHANGED <<spawns, posts, fail, wire>>
\* mutant: the entry is written back to the registry, marked as managed
remote_discover_WritesBack(a) ==
    /\ pc = "idle"
    /\ op' = "discover"
    /\ alias' = a
    /\ IF ~Known(a)
       THEN /\ Done(Outcome("NotFound", <<>>))
            /\ UNCHANGED <<spawns, posts, fail, wire, registry>>
       ELSE /\ Dispatch(registry[a], "discover")
            /\ registry' = [registry EXCEPT ![a].managed = TRUE]
    /\ UNCHANGED <<child, buf, pend, respFrame, respTaken, termReq,
                   killed, cancelAt>>

remote_discover(a) ==
    /\ pc = "idle"
    /\ op' = "discover"
    /\ alias' = a
    /\ IF ~Known(a)
       THEN /\ Done(Outcome("NotFound", <<>>))
            /\ UNCHANGED <<spawns, posts, fail, wire>>
       ELSE Dispatch(registry[a], "discover")
    /\ UNCHANGED <<registry, child, buf, pend, respFrame, respTaken, termReq,
                   killed, cancelAt>>

\* argsOk: whether `arguments` is a JSON text (json.loads of line 200)
remote_call(a, argsOk) ==
    /\ pc = "idle"
    /\ op' = "call"
    /\ alias' = a
    /\ IF ~Known(a)
       THEN /\ Done(Outcome("NotFound", <<>>))
            /\ UNCHANGED <<spawns, posts, fail, wire>>
       ELSE IF ~argsOk
       THEN /\ Done(Outcome("Raised", <<<<"JSONDecodeError">>>>))
            /\ fail' = "arguments"
            /\ UNCHANGED <<spawns, posts, wire>>
       ELSE Dispatch(registry[a], "call")
    /\ UNCHANGED <<registry, child, buf, pend, respFrame, respTaken, termReq,
                   killed, cancelAt>>

----------------------------------------------------------------------------
(* _stdio_request, one action per resumption of the coroutine *)

\* create_subprocess_exec returns: the child runs, `initialize` is written
\* (an empty command names no executable: the spawn can only fail)
SpawnOK ==
    /\ pc = "spawn"
    /\ registry[alias].command # ""
    /\ child' = "running"
    /\ wire' = _send_jsonrpc(SpawnEvent(wire), InitId, "initialize")
    /\ pc' = "drain_init"
    /\ UNCHANGED <<registry, op, alias, buf, pend, outcome, respFrame, respTaken,
                   fail, termReq, killed, cancelAt, spawns, posts>>
\* mutant: a failed spawn is tried again
SpawnFail_Retry ==
    /\ pc = "spawn"
    /\ spawns' = spawns + 1
    /\ fail' = "spawn"
    /\ UNCHANGED <<registry, pc, op, alias, child, buf, wire, pend, outcome,
                   respFrame, respTaken, termReq, killed, cancelAt, posts>>

\* create_subprocess_exec raises, before the try block: no cleanup
SpawnFail ==
    /\ pc = "spawn"
    /\ Done(Surface(Exc("OSError")))
    /\ fail' = "spawn"
    /\ UNCHANGED <<registry, op, alias, child, buf, wire, pend, respFrame,
                   respTaken, termReq, killed, cancelAt, spawns, posts>>
\* mutant: the notification is written without reading the initialize response
DrainOK_NoInitRead ==
    /\ pc \in Drains
    /\ IF pc = "drain_init"
       THEN /\ wire' = _send_notification(wire, "notifications/initialized")
            /\ pc' = "drain_notif"
       ELSE IF pc = "drain_notif"
       THEN /\ wire' = _send_jsonrpc(wire, RequestId, Method(op))
            /\ pc' = "drain_req"
       ELSE /\ pc' = "read_resp"
            /\ UNCHANGED wire
    /\ UNCHANGED <<registry, op, alias, child, buf, pend, outcome, respFrame,
                   respTaken, fail, termReq, killed, cancelAt, spawns, posts>>

\* proc.stdin.drain() returns
DrainOK ==
    /\ pc \in Drains
    /\ IF pc = "drain_init"
       THEN /\ pc' = "read_init"
            /\ UNCHANGED wire
       ELSE IF pc = "drain_notif"
       THEN /\ wire' = _send_jsonrpc(wire, RequestId, Method(op))
            /\ pc' = "drain_req"
       ELSE /\ pc' = "read_resp"
            /\ UNCHANGED wire
    /\ UNCHANGED <<registry, op, alias, child, buf, pend, outcome, respFrame,
                   respTaken, fail, termReq, killed, cancelAt, spawns, posts>>

\* proc.stdin.drain() raises (broken pipe, connection reset)
DrainFail ==
    /\ pc \in Drains
    /\ Raise(Exc("ConnectionError"), "write")
    /\ UNCHANGED <<registry, op, alias, child, buf, wire, respFrame, respTaken,
                   killed, cancelAt, spawns, posts>>

\* _read_jsonrpc gets a line: json.loads, then the code up to the next await
ReadLine ==
    /\ pc \in Reads
    /\ buf # <<>>
    /\ buf' = Tail(buf)
    /\ LET f == Head(buf) IN
       IF pc = "read_init"
       THEN /\ UNCHANGED <<respFrame, respTaken>>
            /\ IF ~f.valid
               THEN /\ wire' = ReadEvent(wire, InitId)
                    /\ Raise(Exc("JSONDecodeError"), "hs_malformed")
               ELSE /\ wire' = _send_notification(ReadEvent(wire, InitId),
                                                  "notifications/initialized")
                    /\ pc' = "drain_notif"
                    /\ UNCHANGED <<pend, outcome, fail, termReq>>
       ELSE /\ wire' = ReadEvent(wire, RequestId)
            /\ respFrame' = f
            /\ IF ~f.valid
               THEN /\ respTaken' = FALSE
                    /\ Raise(Exc("JSONDecodeError"), "resp_malformed")
               ELSE /\ respTaken' = TRUE
                    /\ Raise(Interpret(op, f),
                             IF Interpret(op, f).type = "return" THEN ""
                             ELSE "resp_handling")
    /\ UNCHANGED <<registry, op, alias, child, killed, cancelAt, spawns, posts>>

\* readline() returns b"" at end of file: json.loads raises
ReadEOF ==
    /\ pc \in Reads
    /\ buf = <<>>
    /\ child = "exited"
    /\ Raise(Exc("JSONDecodeError"), IF pc = "read_init" THEN "hs_eof" ELSE "resp_eof")
    /\ UNCHANGED <<registry, op, alias, child, buf, wire, respFrame, respTaken,
                   killed, cancelAt, spawns, posts>>

\* wait_for(readline, timeout) expires: no line came from a living child
ReadTimeout ==
    /\ pc \in Reads
    /\ buf = <<>>
    /\ child = "running"
    /\ Raise(TimeoutExc, IF pc = "read_init" THEN "hs_timeout" ELSE "resp_timeout")
    /\ UNCHANGED <<registry, op, alias, child, buf, wire, respFrame, respTaken,
                   killed, cancelAt, spawns, posts>>
\* mutant: proc.kill() is called even though the child has exited
WaitReturns_KillsAnyway ==
    /\ pc = "grace"
    /\ child = "exited"
    /\ killed' = TRUE
    /\ Done(Surface(pend))
    /\ UNCHANGED <<registry, op, alias, child, buf, wire, pend, respFrame,
                   respTaken, fail, termReq, cancelAt, spawns, posts>>

\* wait_for(proc.wait(), 5) returns: the child has exited
WaitReturns ==
    /\ pc = "grace"
    /\ child = "exited"
    /\ Done(Surface(pend))
    /\ UNCHANGED <<registry, op, alias, child, buf, wire, pend, respFrame,
                   respTaken, fail, termReq, killed, cancelAt, spawns, posts>>
\* mutant: the grace period expires and proc.kill() is forgotten
GraceTimeout_NoKill ==
    /\ pc = "grace"
    /\ child = "running"
    /\ Done(Surface(pend))
    /\ UNCHANGED <<registry, op, alias, child, buf, wire, pend, respFrame,
                   respTaken, fail, termReq, killed, cancelAt, spawns, posts>>

\* wait_for(proc.wait(), 5) expires: except asyncio.TimeoutError: proc.kill()
GraceTimeout ==
    /\ pc = "grace"
    /\ child = "running"
    /\ killed' = TRUE
    /\ child' = "exited"
    /\ Done(Surface(pend))
    /\ UNCHANGED <<registry, op, alias, buf, wire, pend, respFrame, respTaken,
                   fail, termReq, cancelAt, spawns, posts>>

\* the caller cancels the task: CancelledError is raised at the await
Cancel ==
    /\ pc \in Drains \cup Reads \cup {"spawn", "grace", "post"}
    /\ cancelAt' = pc
    /\ IF pc \in Drains \cup Reads
       THEN Raise(CancelExc, "cancel")
       ELSE /\ Done(Surface(CancelExc))
            /\ pend' = CancelExc
            /\ fail' = IF fail = "" THEN "cancel" ELSE fail
            /\ UNCHANGED termReq
    /\ UNCHANGED <<registry, op, alias, child, buf, wire, respFrame, respTaken,
                   killed, spawns, posts>>

----------------------------------------------------------------------------
(* _sse_request after the POST *)

\* client.post returns a body: resp.json(), then lines 529-531
PostResponse(f) ==
    /\ pc = "post"
    /\ respFrame' = f
    /\ IF ~f.valid
       THEN /\ respTaken' = FALSE
            /\ fail' = "resp_malformed"
            /\ Done(Surface(Exc("JSONDecodeError")))
       ELSE /\ respTaken' = TRUE
            /\ fail' = IF Interpret(op, f).type = "return" THEN fail ELSE "resp_handling"
            /\ Done(Surface(Interpret(op, f)))
    /\ wire' = ReadEvent(wire, SseRequestId)
    /\ UNCHANGED <<registry, op, alias, child, buf, pend, termReq, killed,
                   cancelAt, spawns, posts>>

\* client.post raises: no connection, or httpx's own timeout
PostFail ==
    /\ pc = "post"
    /\ \E e \in {"ConnectError", "ReadTimeout"} :
          /\ fail' = e
          /\ Done(Surface(Exc(e)))
    /\ UNCHANGED <<registry, op, alias, child, buf, wire, pend, respFrame,
                   respTaken, termReq, killed, cancelAt, spawns, posts>>

----------------------------------------------------------------------------
(* The downstream process *)

\* the child prints a line; what it prints after the last read is never seen
ChildWrite(f) ==
    /\ child = "running"
    /\ pc \in Drains \cup Reads
    /\ Len(buf) < MaxBuf
    /\ buf' = Append(buf, f)
    /\ UNCHANGED <<registry, pc, op, alias, child, wire, pend, outcome, respFrame,
                   respTaken, fail, termReq, killed, cancelAt, spawns, posts>>

\* the child exits, on its own or on SIGTERM
ChildExit ==
    /\ child = "running"
    /\ pc \in Drains \cup Reads \cup {"grace"}
    /\ child' = "exited"
    /\ UNCHANGED <<registry, pc, op, alias, buf, wire, pend, outcome, respFrame,
                   respTaken, fail, termReq, killed, cancelAt, spawns, posts>>

\* the caller has the outcome; the next call starts from a clean slate
Reset ==
    /\ pc = "done"
    /\ pc' = "idle"
    /\ op' = ""
    /\ alias' = ""
    /\ child' = "none"
    /\ buf' = <<>>
    /\ wire' = <<>>
    /\ pend' = NoPend
    /\ outcome' = NoOutcome
    /\ respFrame' = NoFrame
    /\ respTaken' = FALSE
    /\ fail' = ""
    /\ termReq' = FALSE
    /\ killed' = FALSE
    /\ cancelAt' = ""
    /\ spawns' = 0
    /\ posts' = 0
    /\ UNCHANGED registry

Next ==
    \/ \E a \in Aliases : remote_discover(a) /\ UNCHANGED beside
    \/ \E a \in Aliases, argsOk \in BOOLEAN : remote_call(a, argsOk) /\ UNCHANGED beside
    \/ SpawnOK /\ UNCHANGED beside
    \/ SpawnFail /\ UNCHANGED beside
    \/ DrainOK /\ UNCHANGED beside
    \/ DrainFail /\ UNCHANGED beside
    \/ ReadLine /\ UNCHANGED beside
    \/ ReadEOF /\ UNCHANGED beside
    \/ ReadTimeout /\ UNCHANGED beside
    \/ WaitReturns /\ UNCHANGED beside
    \/ GraceTimeout /\ UNCHANGED beside
    \/ Cancel /\ UNCHANGED beside
    \/ \E f \in Frames : PostResponse(f) /\ UNCHANGED beside
    \/ PostFail /\ UNCHANGED beside
    \/ \E f \in Frames : ChildWrite(f) /\ UNCHANGED beside
    \/ ChildExit /\ UNCHANGED beside
    \/ Reset /\ UNCHANGED beside

Spec == Init /\ [][Next]_vars

SpecAnyRegistry == InitAnyRegistry /\ [][Next]_vars

----------------------------------------------------------------------------
(* The formatters on their own: a result mapping is drawn, then one of the *)
(* two formatters is applied to it.                                        *)

SeqUpTo(S, n) == UNION {[1..k -> S] : k \in 0..n}

FmtTools == {Tool1, Tool2, ToolNoName}
FmtItems == {Item1, ItemSentinelText, ItemTwoLines, ItemEmptyText, ItemNoText, ItemImage}

\* result mappings: a "tools" list, a "content" list, or neither key
FmtResults ==
    {[hasTools |-> TRUE, tools |-> ts, hasContent |-> FALSE, content |-> <<>>] :
        ts \in SeqUpTo(FmtTools, MaxItems)}
    \cup {[hasTools |-> FALSE, tools |-> <<>>, hasContent |-> TRUE, content |-> c] :
        c \in SeqUpTo(FmtItems, MaxItems)}
    \cup {EmptyResult}

InitFormat ==
    /\ registry \in {[a \in Aliases |-> NoDesc]}
    /\ NoCall
    /\ fmtIn \in FmtResults
    /\ fmtBy = ""
    /\ fmtOut = NoPend
    /\ NoRegOp
    /\ NoCallB
    /\ NoStatus

\* state that a formatter does not touch
besideFormat == <<registry, callVars, regVars, pairVars, statusVars>>

FormatTools ==
    /\ fmtBy = ""
    /\ fmtBy' = "tools"
    /\ fmtOut' = _format_tools(fmtIn)
    /\ UNCHANGED <<fmtIn, besideFormat>>

FormatCall ==
    /\ fmtBy = ""
    /\ fmtBy' = "call"
    /\ fmtOut' = _format_call_result(fmtIn)
    /\ UNCHANGED <<fmtIn, besideFormat>>

NextFormat ==
    \/ FormatTools
    \/ FormatCall

SpecFormat == InitFormat /\ [][NextFormat]_vars

----------------------------------------------------------------------------
(* The tools that write the registry, from an empty registry.  Each tool   *)
(* is synchronous: it runs from its load to its save as one step.          *)

SysExecutable == "python"
Transports == {"stdio", "sse", "http"}
Commands == {"", "python"}
Urls == {"", "http://h/sse"}
Languages == {"python", "node", "ruby"}

InitRegistry ==
    /\ registry = [a \in Aliases |-> NoDesc]
    /\ NoCall
    /\ NoFormat
    /\ NoRegOp
    /\ NoCallB
    /\ NoStatus

\* state that a registry-writing tool does not touch
besideRegistry == <<callVars, fmtVars, pairVars, statusVars>>

\* how a tool ended, the registry and the directories as it found them
Ended(tool, how) ==
    /\ regOp' = tool
    /\ regOut' = how
    /\ UNCHANGED <<registry, dirs, besideRegistry>>

\* registry["servers"][a] = entry; _save_registry(registry)
Stored(tool, a, entry) ==
    /\ registry' = [registry EXCEPT ![a] = entry]
    /\ regOp' = tool
    /\ regOut' = "ok"
    /\ UNCHANGED besideRegistry

\* command / url None and "" are one case: both fail `if command:`;
\* jsonOk = FALSE is an `args` or `env` string that json.loads rejects
registry_add(a, transport, command, url, env, jsonOk) ==
    IF ~registry_add_accepts([transport |-> transport, command |-> command,
                              url |-> url])
    THEN Ended("registry_add", "rejected")
    ELSE IF ~jsonOk
    THEN Ended("registry_add", "raised")
    ELSE /\ Stored("registry_add", a,
                   Desc(transport, command # "", command, url # "", url, env, FALSE))
         /\ UNCHANGED dirs

registry_remove(a) ==
    IF ~registry[a].present
    THEN Ended("registry_remove", "rejected")
    ELSE /\ Stored("registry_remove", a, NoDesc)
         /\ UNCHANGED dirs

\* templateOk: the template directory of the language exists
scaffold_server(name, language, templateOk) ==
    IF language \notin {"python", "node"} \/ dirs[name] \/ ~templateOk
    THEN Ended("scaffold_server", "rejected")
    ELSE /\ dirs' = [dirs EXCEPT ![name] = TRUE]
         /\ Stored("scaffold_server", name,
                   Desc("stdio", TRUE,
                        IF language = "python" THEN SysExecutable ELSE "node",
                        FALSE, "", NoEnv, TRUE))

\* cloneOk: git clone returned 0; language: what the clone is detected as
scaffold_from_repo(name, cloneOk, language) ==
    IF dirs[name] \/ ~cloneOk
    THEN Ended("scaffold_from_repo", "rejected")
    ELSE /\ dirs' = [dirs EXCEPT ![name] = TRUE]
         /\ Stored("scaffold_from_repo", name,
                   Desc("stdio", TRUE,
                        IF language = "python" THEN SysExecutable ELSE "node",
                        FALSE, "", NoEnv, TRUE))

\* buildOk: the Dockerfile / requirements file is there and the build
\* command returned 0
build_server(name, use_docker, buildOk) ==
    IF ~registry[name].present \/ ~registry[name].managed \/ ~dirs[name]
       \/ ~buildOk
    THEN Ended("build_server", "rejected")
    ELSE IF use_docker
    THEN /\ Stored("build_server", name,
                   [registry[name] EXCEPT !.hasCommand = TRUE, !.command = "docker"])
         /\ UNCHANGED dirs
    ELSE Ended("build_server", "ok")

NextRegistry ==
    \/ \E a \in Aliases, transport \in Transports, command \in Commands,
          url \in Urls, env \in Envs, jsonOk \in BOOLEAN :
            registry_add(a, transport, command, url, env, jsonOk)
    \/ \E a \in Aliases : registry_remove(a)
    \/ \E name \in Aliases, language \in Languages, templateOk \in BOOLEAN :
            scaffold_server(name, language, templateOk)
    \/ \E name \in Aliases, cloneOk \in BOOLEAN, language \in {"python", "node"} :
            scaffold_from_repo(name, cloneOk, language)
    \/ \E name \in Aliases, use_docker \in BOOLEAN, buildOk \in BOOLEAN :
            build_server(name, use_docker, buildOk)

SpecRegistry == InitRegistry /\ [][NextRegistry]_vars

----------------------------------------------------------------------------
(* Two calls at once: remote_discover on the process server "proc" (the    *)
(* call of the variables above) and a second call, on the remote server    *)
(* "web".  Both are coroutines of one event loop: each runs from one await *)
(* to the next, and at an await either may be resumed.                     *)

\* what the child prints, and what the POST of the second call returns
PairFrames == {Garbage, Notification, InitResponse, ResultResponse(ToolsResult)}
PairBodies == {Garbage, NonObject, ResultResponse(ContentResult), ErrorResponse("e1")}

InitPair ==
    /\ registry = [a \in Aliases |-> IF a = "proc" THEN StdioDesc ELSE SseDesc]
    /\ NoCall
    /\ NoFormat
    /\ NoRegOp
    /\ NoCallB
    /\ NoStatus

InFlightA == pc \notin {"idle", "done"}
InFlightB == pcB = "post"

DoneB(o) ==
    /\ pcB' = "done"
    /\ outcomeB' = o

\* remote_discover on "proc" begins
BeginA ==
    /\ remote_discover("proc")
    /\ overlap' = (overlap \/ InFlightB)
    /\ UNCHANGED <<fmtVars, regVars, callVarsB, statusVars>>

\* remote_discover / remote_call on "web", up to the await of client.post
BeginB(o) ==
    /\ pcB = "idle"
    /\ opB' = o
    /\ overlap' = (overlap \/ InFlightA)
    /\ LET server == registry["web"]
       IN IF ~Known("web")
          THEN DoneB(Outcome("NotFound", <<>>)) /\ UNCHANGED failB
          ELSE IF server.transport # "sse"
          THEN DoneB(Outcome("UnknownTransport", <<<<server.transport>>>>))
               /\ UNCHANGED failB
          ELSE \E httpx \in BOOLEAN :
                  IF ~httpx
                  THEN /\ DoneB(Outcome("Unavailable", <<<<"Error: httpx not installed.">>>>))
                       /\ failB' = "httpx"
                  ELSE IF ~server.hasUrl
                  THEN DoneB(Surface(Exc("KeyError"))) /\ failB' = "descriptor"
                  ELSE IF server.url = ""
                  THEN DoneB(Surface(Exc("UnsupportedProtocol"))) /\ failB' = "descriptor"
                  ELSE pcB' = "post" /\ UNCHANGED <<failB, outcomeB>>
    /\ UNCHANGED <<bodyB, registry, callVars, fmtVars, regVars, statusVars>>

\* mutant: the second call is resumed only when the first is not in flight
PostResponseB_Serialised(f) ==
    /\ pcB = "post"
    /\ ~InFlightA
    /\ bodyB' = f
    /\ failB' = IF ~f.valid THEN "resp_malformed"
                ELSE IF Interpret(opB, f).type = "return" THEN failB
                ELSE "resp_handling"
    /\ DoneB(Surface(IF ~f.valid THEN Exc("JSONDecodeError") ELSE Interpret(opB, f)))
    /\ UNCHANGED <<opB, overlap, registry, callVars, fmtVars, regVars, statusVars>>

\* client.post of the second call returns a body
PostResponseB(f) ==
    /\ pcB = "post"
    /\ bodyB' = f
    /\ failB' = IF ~f.valid THEN "resp_malformed"
                ELSE IF Interpret(opB, f).type = "return" THEN failB
                ELSE "resp_handling"
    /\ DoneB(Surface(IF ~f.valid THEN Exc("JSONDecodeError") ELSE Interpret(opB, f)))
    /\ UNCHANGED <<opB, overlap, registry, callVars, fmtVars, regVars, statusVars>>

\* client.post of the second call raises
PostFailB ==
    /\ pcB = "post"
    /\ \E e \in {"ConnectError", "ReadTimeout"} :
          /\ failB' = e
          /\ DoneB(Surface(Exc(e)))
    /\ UNCHANGED <<opB, bodyB, overlap, registry, callVars, fmtVars, regVars, statusVars>>

\* the steps of the first call after its beginning
StepA ==
    \/ SpawnOK
    \/ SpawnFail
    \/ DrainOK
    \/ DrainFail
    \/ ReadLine
    \/ ReadEOF
    \/ ReadTimeout
    \/ WaitReturns
    \/ GraceTimeout

NextPair ==
    \/ BeginA
    \/ \E o \in {"discover", "call"} : BeginB(o)
    \/ SpawnOK /\ UNCHANGED beside
    \/ SpawnFail /\ UNCHANGED beside
    \/ DrainOK /\ UNCHANGED beside
    \/ DrainFail /\ UNCHANGED beside
    \/ ReadLine /\ UNCHANGED beside
    \/ ReadEOF /\ UNCHANGED beside
    \/ ReadTimeout /\ UNCHANGED beside
    \/ WaitReturns /\ UNCHANGED beside
    \/ GraceTimeout /\ UNCHANGED beside
    \/ Cancel /\ UNCHANGED beside
    \/ \E f \in PairFrames : ChildWrite(f) /\ UNCHANGED beside
    \/ ChildExit /\ UNCHANGED beside
    \/ \E f \in PairBodies : PostResponseB(f)
    \/ PostFailB

SpecPair == InitPair /\ [][NextPair]_vars

----------------------------------------------------------------------------
(* server_status, on two registries that differ only in the values of the  *)
(* "env" maps of their entries.                                            *)

EnvKeys == {"AUTH_TOKEN", "API_KEY"}
EnvValues == {"", "tok", "key"}
EnvMaps == UNION {[K -> EnvValues] : K \in SUBSET EnvKeys}

\* the env of a descriptor, as far as AUTH_TOKEN goes, for an "env" map
EnvOfMap(m) ==
    [has |-> TRUE, hasToken |-> "AUTH_TOKEN" \in DOMAIN m,
     token |-> IF "AUTH_TOKEN" \in DOMAIN m THEN m["AUTH_TOKEN"] ELSE ""]

\* str() of a bool inside an f-string
PyBool(b) == IF b THEN "True" ELSE "False"

\* server.items(): the keys of an entry in the order registry_add sets them
Items(server) ==
    <<<<"transport", server.transport>>, <<"managed", PyBool(server.managed)>>>>
    \o (IF server.hasCommand THEN <<<<"command", server.command>>>> ELSE <<>>)
    \o (IF server.hasUrl THEN <<<<"url", server.url>>>> ELSE <<>>)
    \o (IF server.env.has THEN <<<<"env", "">>>> ELSE <<>>)

\* mutant: the env map is printed like any other key
StatusLine_PrintsEnv(item, envmap) ==
    IF item[1] = "env"
    THEN <<"  ", "env", ": ", envmap>>
    ELSE <<"  ", item[1], ": ", item[2]>>

\* one line of server_status: lines 454-457
StatusLine(item, envmap) ==
    IF item[1] = "env"
    THEN <<"  env: [redacted, ", Cardinality(DOMAIN envmap), " vars]">>
    ELSE <<"  ", item[1], ": ", item[2]>>

\* the text server_status returns, as the sequence of its lines
server_status(reg, envs, name) ==
    IF ~reg[name].present
    THEN <<<<"Server '", name, "' not found.">>>>
    ELSE LET items == Items(reg[name])
         IN <<<<"Server: ", name>>>>
            \o [i \in 1..Len(items) |-> StatusLine(items[i], envs[name])]

InitStatus ==
    /\ \E m \in EnvMaps, t \in EnvMaps :
          /\ DOMAIN m = DOMAIN t
          /\ envOf = [a \in Aliases |-> IF a = "web" THEN m ELSE NoVars]
          /\ envTwin = [a \in Aliases |-> IF a = "web" THEN t ELSE NoVars]
          /\ registry \in
                {r \in [Aliases -> {NoDesc, StdioDesc, SseDesc, SseDescEnv(EnvOfMap(m))}] :
                    /\ r["proc"] \in {NoDesc, StdioDesc}
                    /\ r["web"].transport = "sse"
                    /\ (m # NoVars => r["web"].env.has)}
    /\ statusName = ""
    /\ statusOut = <<>>
    /\ statusTwin = <<>>
    /\ NoCall
    /\ NoFormat
    /\ NoRegOp
    /\ NoCallB

\* server_status(name), read off both registries
ServerStatus(name) ==
    /\ statusName = ""
    /\ statusName' = name
    /\ statusOut' = server_status(registry, envOf, name)
    /\ statusTwin' = server_status(registry, envTwin, name)
    /\ UNCHANGED <<registry, envOf, envTwin, callVars, fmtVars, regVars, pairVars>>

NextStatus == \E name \in Aliases : ServerStatus(name)

SpecStatus == InitStatus /\ [][NextStatus]_vars

----------------------------------------------------------------------------
(* Properties *)

IsPrefix(s, t) == Len(s) <= Len(t) /\ SubSeq(t, 1, Len(s)) = s

Returned == pc = "done" /\ outcome.kind # "Cancelled"

ViaStdio == op # "" /\ Known(alias) /\ registry[alias].transport = "stdio"

\* C1: once a process-transport call that spawned a child has returned its
\* outcome to the caller, on any exit path, the child is no longer running.
C1_NoOrphanAfterReturn ==
    (Returned /\ child # "none") => (child = "exited" /\ termReq)

\* C1 witness: a call that timed out returned after force-killing its child.
C1_Witness ==
    pc = "done" /\ outcome.kind = "Timeout" /\ killed /\ child = "exited"

\* C2 (as stated): after a cancellation at a write, a read or in the grace
\* period, termination was requested and the child is not left running.
C2_CancelStillCleansUp ==
    (pc = "done" /\ cancelAt \in Drains \cup Reads \cup {"grace"})
        => (termReq /\ child # "running")

\* C3: a call on an alias that is not in the registry ends at once with the
\* not-found outcome, with no spawn, no POST and nothing on the wire.
C3_UnknownAliasNoSideEffect ==
    (alias # "" /\ ~registry[alias].present)
        => /\ pc = "done"
           /\ outcome.kind = "NotFound"
           /\ spawns = 0
           /\ posts = 0
           /\ wire = <<>>
           /\ child = "none"

\* C3 witness: remote_call on an unknown alias has returned not-found.
C3_Witness ==
    pc = "done" /\ op = "call" /\ ~registry[alias].present
    /\ outcome.kind = "NotFound"

\* the outcome of a request-phase timeout
CallTimeoutOutcome == Surface(TimeoutExc)

RequestSent == \E i \in 1..Len(wire) : wire[i] = <<"send", Method(op), RequestId>>

\* C4 (as stated): a timeout or malformed frame while waiting for the
\* initialize response gives an outcome that differs from the request-phase
\* timeout outcome, the request is never sent and the child is terminated.
C4_HandshakeFailedDistinct ==
    (Returned /\ fail \in {"hs_timeout", "hs_malformed"})
        => /\ outcome # CallTimeoutOutcome
           /\ ~RequestSent
           /\ child = "exited"

\* C5: when the handshake completed and no line came within the response
\* timeout, the call returns the timeout outcome and the child is terminated.
C5_ResponseTimeout ==
    (Returned /\ fail = "resp_timeout")
        => /\ outcome = CallTimeoutOutcome
           /\ outcome.kind = "Timeout"
           /\ RequestSent
           /\ termReq
           /\ child = "exited"

\* C5 witness: a call whose response read timed out has returned.
C5_Witness ==
    pc = "done" /\ fail = "resp_timeout" /\ outcome.kind = "Timeout"
    /\ Len(wire) = 5

\* C6 (as stated): a response carrying an `error` field gives the
\* server-error outcome with exactly that payload, on both transports.
C6_RemoteErrorPassedThrough ==
    (Returned /\ respTaken /\ respFrame.isobj /\ respFrame.hasError)
        => outcome = Outcome("ServerError",
                             <<<<"Server error: ", PyStr(respFrame.error)>>>>)

\* C7 (as stated): a process-transport outcome built from a downstream frame
\* is built from the frame that carries the request's id.
C7_ResponseMatchesRequest ==
    (Returned /\ ViaStdio /\ outcome.kind \in {"Formatted", "ServerError"})
        => (respTaken /\ respFrame.id = RequestId)

\* C8 (as stated): a response frame that is not valid JSON, or is an object
\* with neither `result` nor `error`, never gives a formatted result.
C8_MalformedNeverFormatted ==
    (Returned /\ respFrame # NoFrame
     /\ (~respFrame.valid
         \/ (respFrame.isobj /\ ~respFrame.hasResult /\ ~respFrame.hasError)))
        => outcome.kind = "Error"

StdioOrder(o) ==
    << <<"spawn", "", NoId>>,
       <<"send", "initialize", InitId>>,
       <<"readline", "", InitId>>,
       <<"send", "notifications/initialized", NoId>>,
       <<"send", Method(o), RequestId>>,
       <<"readline", "", RequestId>> >>

\* C9: the wire events of a process-transport call are always a prefix of
\* spawn, initialize (id 1), read, initialized, request (id 2), read.
C9_WireOrder ==
    ViaStdio => (IsPrefix(wire, StdioOrder(op)) /\ InitId # RequestId)

\* C9 witness: a process-transport call went through all six wire events.
C9_Witness ==
    ViaStdio /\ pc = "done" /\ wire = StdioOrder(op)

\* C10 (as stated): whatever the input and the downstream behaviour, no raw
\* exception escapes remote_discover or remote_call.
C10_NoRawException ==
    pc = "done" => outcome.kind # "Raised"

InFlight == op # "" /\ Known(alias)

Failure == outcome.kind \in {"Error", "Unavailable", "Timeout", "UnknownTransport"}

\* C11 (as stated): a call on a stdio entry without a non-empty command, or
\* on an sse entry without a non-empty url, ends in a failure with no spawn
\* and no POST attempted.
C11_InvalidDescriptorRejected ==
    (InFlight /\ registry[alias].transport \in {"stdio", "sse"}
     /\ ~ValidDescriptor(registry[alias]) /\ fail # "arguments")
        => (pc = "done" /\ Failure /\ spawns = 0 /\ posts = 0)

Count(w, P(_)) == Cardinality({i \in 1..Len(w) : P(w[i])})

IsRequestSend(e) == e[1] = "send" /\ e[3] = RequestId
IsResponseRead(e) == e[1] = "readline" /\ e[3] = RequestId
IsPost(e) == e[1] = "post"
IsHeader(e) == e[1] = "header Authorization: Bearer"

\* C13: no step of remote_discover or remote_call, on any exit path, changes
\* the registry's alias-to-descriptor mapping.
C13_RegistryNeverMutated == [][registry' = registry]_vars

\* C13 witness: a process-transport call on a registered entry has returned
\* a formatted result.
C13_Witness ==
    pc = "done" /\ registry[alias] = StdioDesc /\ outcome.kind = "Formatted"
    /\ ~killed

\* C14: one call spawns at most one child, sends its request at most once,
\* reads at most one response line, or issues at most one POST; never both
\* a spawn and a POST.
C14_NoRetry ==
    /\ spawns <= 1
    /\ posts <= 1
    /\ spawns + posts <= 1
    /\ Count(wire, IsRequestSend) <= 1
    /\ Count(wire, IsResponseRead) <= 1
    /\ Count(wire, IsPost) <= 1
    /\ Count(wire, IsPost) = posts

\* C14 witness: a call whose spawn failed has returned after one attempt.
C14_Witness ==
    pc = "done" /\ fail = "spawn" /\ spawns = 1 /\ outcome.kind = "Error"

C16_Dispatch ==
    InFlight =>
        LET d == registry[alias]
            r == IF respFrame.hasResult THEN respFrame.result ELSE EmptyResult
        IN /\ d.transport = "stdio" =>
                /\ posts = 0
                /\ spawns = 1 \/ fail = "arguments"
                   \/ (fail = "descriptor" /\ ~d.hasCommand)
           /\ d.transport = "sse" =>
                /\ spawns = 0
                /\ child = "none"
                /\ posts = 1 \/ fail \in {"arguments", "httpx"}
                   \/ (fail = "descriptor" /\ (~d.hasUrl \/ d.url = ""))
           /\ d.transport \notin {"stdio", "sse"} =>
                /\ spawns = 0
                /\ posts = 0
                /\ wire = <<>>
                /\ pc = "done"
                /\ outcome.kind \in {"UnknownTransport", "Raised"}
                /\ outcome.kind = "Raised" => fail = "arguments"
           /\ (pc = "done" /\ outcome.kind = "Formatted") =>
                /\ op = "discover" => outcome = _format_tools(r).val
                /\ op = "call" => outcome = _format_call_result(r).val

\* C16 witness: a call on an entry of another transport kind has returned
\* the unknown-transport failure.
C16_Witness ==
    pc = "done" /\ InFlight /\ registry[alias] = OtherDesc
    /\ outcome.kind = "UnknownTransport"

\* C20: proc.kill() is only ever called after proc.terminate(), at the end
\* of a grace period the child outlived; a grace period the child outlives
\* ends with the kill; a failed spawn is followed by no terminate or kill.
C20_CleanupEscalation ==
    [][/\ (killed' /\ ~killed) => (termReq /\ pc = "grace" /\ child = "running")
       /\ (pc = "grace" /\ child = "running" /\ pc' = "done"
           /\ outcome'.kind # "Cancelled") => (killed' /\ child' = "exited")
       /\ (pc = "grace" /\ child = "exited") => ~killed'
       /\ killed' => termReq'
       /\ (pc = "spawn" /\ pc' = "done") => (~termReq' /\ ~killed')]_vars

\* C20 witness: a child that exited within the grace period: terminated,
\* not killed.
C20_Witness ==
    pc = "done" /\ termReq /\ ~killed /\ child = "exited" /\ outcome.kind = "Timeout"

----------------------------------------------------------------------------
(* Formatter properties, under SpecFormat *)

NoToolsLine == Str("No tools found on this server.")
EmptyResponseLine == Str("(empty response)")

\* every element carries the field the formatter reads from it
WellFormedTools == \A i \in 1..Len(fmtIn.tools) : fmtIn.tools[i].hasName
WellFormedContent ==
    \A i \in 1..Len(fmtIn.content) :
        fmtIn.content[i].type = "text" => fmtIn.content[i].hasText

\* the entry of one tool: its line and the lines of its parameters
ToolEntry(t) == <<<<"  ", t.name, ": ", t.desc>>>> \o ParamLines(t.props)
\* the entry of one content item
ItemEntry(item) == IF item.type = "text" THEN item.text ELSE JsonDumps(item)

\* the entries of the first n elements, in the order of the sequence
RECURSIVE Entries(_, _, _)
Entries(E(_), s, n) ==
    IF n = 0 THEN <<>> ELSE Entries(E, s, n - 1) \o E(s[n])

ToolsFormatted == fmtBy = "tools" /\ fmtIn.hasTools /\ WellFormedTools
CallFormatted == fmtBy = "call" /\ fmtIn.hasContent /\ WellFormedContent

\* one entry per element, in order, for a non-empty sequence
OneEntryPerElement ==
    /\ ToolsFormatted /\ fmtIn.tools # <<>> =>
          fmtOut = Ret("Formatted", <<<<"Available tools:">>>>
                          \o Entries(ToolEntry, fmtIn.tools, Len(fmtIn.tools)))
    /\ CallFormatted /\ fmtIn.content # <<>> =>
          fmtOut = Ret("Formatted",
                       Entries(ItemEntry, fmtIn.content, Len(fmtIn.content)))

\* C17 (as stated): the tool-list formatter returns the "no tools" line
\* exactly when the tools sequence is empty, the tool-call formatter returns
\* the "empty response" line exactly when the content sequence is empty, and
\* a non-empty sequence gives one entry per element in order.
C17_SentinelExactlyWhenEmpty ==
    /\ ToolsFormatted =>
          (fmtOut = Ret("Formatted", NoToolsLine) <=> fmtIn.tools = <<>>)
    /\ CallFormatted =>
          (fmtOut = Ret("Formatted", EmptyResponseLine) <=> fmtIn.content = <<>>)
    /\ OneEntryPerElement

\* C17 (amended): as above, except that the tool-call formatter returns the
\* "empty response" line for an empty content sequence and also for a
\* non-empty one whose entries are together that very line.
C17_SentinelWhenEmpty ==
    /\ ToolsFormatted =>
          (fmtOut = Ret("Formatted", NoToolsLine) <=> fmtIn.tools = <<>>)
    /\ CallFormatted =>
          (fmtOut = Ret("Formatted", EmptyResponseLine)
             <=> \/ fmtIn.content = <<>>
                 \/ Entries(ItemEntry, fmtIn.content, Len(fmtIn.content))
                        = EmptyResponseLine)
    /\ OneEntryPerElement

\* the tool-call formatter has rendered a single text item whose text is
\* the "empty response" line
C17_Witness ==
    /\ CallFormatted
    /\ fmtIn.content = <<ItemSentinelText>>
    /\ fmtOut = Ret("Formatted", EmptyResponseLine)

\* C18: a result mapping with neither a tools nor a content sequence is
\* surfaced as UnrecognizedResultShape, never rendered as an empty tool
\* list or an empty response.
C18_UnrecognizedShape ==
    fmtBy # "" /\ ~fmtIn.hasTools /\ ~fmtIn.hasContent =>
        /\ fmtOut = Exc("UnrecognizedResultShape")
        /\ fmtOut \notin {Ret("Formatted", NoToolsLine),
                           Ret("Formatted", EmptyResponseLine)}

----------------------------------------------------------------------------
(* Registry properties, under SpecRegistry *)

ValidRegistry ==
    \A a \in Aliases : registry[a].present => ValidDescriptor(registry[a])

\* C19: from an empty registry, after any sequence of registry_add,
\* registry_remove, scaffold_server, scaffold_from_repo and build_server,
\* every stored stdio entry has a non-empty command, every stored sse
\* entry a non-empty url, and no other transport is stored; a registry_add
\* that is rejected leaves the registry unchanged.
C19_DescriptorInvariant ==
    /\ ValidRegistry
    /\ [][/\ ValidRegistry'
          /\ (regOp' = "registry_add" /\ regOut' # "ok" => registry' = registry)]_vars

\* a registry_add was rejected while the registry holds a server that was
\* scaffolded and rebuilt as a container, and a remote server
C19_Witness ==
    /\ regOp = "registry_add"
    /\ regOut = "rejected"
    /\ registry["proc"].managed
    /\ registry["proc"].command = "docker"
    /\ registry["web"].transport = "sse"

----------------------------------------------------------------------------
(* Two concurrent calls, under SpecPair *)

\* what the second call owes its caller, from its own descriptor and from
\* what its own server did
ExpectedB ==
    CASE failB = "httpx" -> Outcome("Unavailable", <<<<"Error: httpx not installed.">>>>)
      [] failB \in {"ConnectError", "ReadTimeout"} -> Surface(Exc(failB))
      [] OTHER -> Surface(IF ~bodyB.valid THEN Exc("JSONDecodeError")
                          ELSE Interpret(opB, bodyB))

\* C12: of two concurrent calls, one on a process server and one on a
\* remote server, neither changes the other's state or outcome, neither
\* keeps the other from its next step whatever fault it met, and the
\* outcome of the remote call follows from its own server's answer alone.
C12_CallsIndependent ==
    /\ [](InFlightA => ENABLED (StepA /\ UNCHANGED beside))
    /\ [](InFlightB => /\ ENABLED PostFailB
                       /\ \A f \in PairBodies : ENABLED PostResponseB(f))
    /\ [](pcB = "done" => outcomeB = ExpectedB)
    /\ [][/\ callVars' # callVars => callVarsB' = callVarsB
          /\ callVarsB' # callVarsB => callVars' = callVars
          /\ registry' = registry]_vars

\* the two calls overlapped, the process call ran into its read timeout
\* and the remote call returned its server's content
C12_Witness ==
    /\ overlap
    /\ pc = "done"
    /\ outcome.kind = "Timeout"
    /\ pcB = "done"
    /\ outcomeB = Ret("Formatted", Str("hello")).val

----------------------------------------------------------------------------
(* Cleanup and the outcome, under Spec *)

\* what the handshake and request phases of _stdio_request determined
Determined ==
    CASE fail \in {"hs_timeout", "resp_timeout"} -> Surface(TimeoutExc)
      [] fail \in {"hs_malformed", "resp_malformed", "hs_eof", "resp_eof"} ->
            Surface(Exc("JSONDecodeError"))
      [] OTHER -> Surface(Interpret(op, respFrame))

\* C21: a process-transport call that was not cancelled, wrote its
\* messages and has run its cleanup hands the caller the outcome its handshake and request phases
\* determined, whatever state the child was in when cleanup began.
C21_CleanupKeepsOutcome ==
    (pc = "done" /\ ViaStdio /\ termReq /\ cancelAt = "" /\ fail # "write")
        => outcome = Determined

----------------------------------------------------------------------------
(* server_status, under SpecStatus *)

\* C22: for two registries that differ only in the values stored under the
\* keys of an entry's env map, server_status returns the same text for
\* that entry.
C22_EnvValuesNotDisclosed ==
    statusName # "" => statusOut = statusTwin

\* server_status has answered for an entry with two variables whose values
\* all differ between the two registries
C22_Witness ==
    /\ statusName = "web"
    /\ DOMAIN envOf["web"] = EnvKeys
    /\ \A k \in EnvKeys : envOf["web"][k] # envTwin["web"][k]
    /\ statusOut = statusTwin
    /\ Len(statusOut) = 5

====
